---------------------------- MODULE Spec2Model ----------------------------
(***************************************************************************)
(* Model of blocks/log.py: the training log with its two backends.         *)
(*                                                                         *)
(*   TrainingLog  - a defaultdict(dict) plus a plain dict status           *)
(*   SQLiteLog    - two tables, entries(uuid, time, key, value) and        *)
(*                  status(uuid, key, value), read through the chain of    *)
(*                  resumed_from links ("ancestors")                       *)
(*                                                                         *)
(* The same sequence of calls is applied to one log of each backend.       *)
(* Python values are pairs <<type, payload>>; SQLite values are pairs      *)
(* <<storage class, payload>>.  Floats carry their value in tenths.        *)
(* The Python semantics are those of the interpreter the file is written   *)
(* for (six, collections.MutableMapping): sqlite3.Binary is a buffer.      *)
(***************************************************************************)
EXTENDS Integers, Sequences, FiniteSets, TLC

\* ------------------------------------------------------------------ bounds
\* Number of calls that change a log (writes, deletes, resume()) in a run.
MaxOps == 4

\* ------------------------------------------------------------------ inputs
Times == {0, 1}
Keys == {"loss", "acc"}
PyNone == <<"NoneType", 0>>
Values == {<<"float", 10>>, <<"float", 5>>, PyNone}
\* Arguments tried for log[time]: -1, 0, 1, 1.0, 0.5, -1.0 and 'a'.
TimeInputs ==
    {<<"int", -1>>, <<"int", 0>>, <<"int", 1>>,
     <<"float", 10>>, <<"float", 5>>, <<"float", -10>>, <<"str", 0>>}
SeedKeys == {"iterations_done", "epochs_done", "resumed_from"}
\* The status keys callers write and delete: a seeded counter and a key of
\* their own; StatusKeys adds the link resume() maintains, which the
\* mapping lets a caller write and delete like any other key.
UserStatusKeys == {"iterations_done", "note"}
StatusKeys == UserStatusKeys \cup {"resumed_from"}
StatusValues == {<<"int", 1>>, <<"int", 2>>}

\* ----------------------------------------------------------- call outcomes
Return(v) == <<"return", v>>
Raise(e) == <<"raise", <<e, 0>>>>
NoCall == <<"none", <<"none", 0>>>>

\* -------------------------------------------------------------- variables
VARIABLES
    uuid,              \* SQLiteLog.uuid
    entries,           \* table entries: set of rows
    status,            \* table status: set of rows
    cached_ancestors,  \* SQLiteLog._ancestors; <<>> while the attribute is unset
    m_uuid,            \* TrainingLog.uuid
    m_rows,            \* TrainingLog as a dict: time -> (key -> value)
    m_status,          \* TrainingLog.status
    m_order,           \* TrainingLog as a dict: its times, in insertion order
    conn,              \* SQLiteLog.database and what the connection is open on
    pending,           \* status writes the running call has yet to commit
    nextid,            \* the next value uuid4() returns
    ops,               \* mutating calls made so far
    hist,              \* per (time, key): the last write or delete made there
    last               \* the last call and what it returned

vars == <<uuid, entries, status, cached_ancestors, m_uuid, m_rows, m_status,
          m_order, conn, pending, nextid, ops, hist, last>>

\* ------------------------------------------------------- python <-> sqlite
\* sqlite3's adaptation of a bound parameter to a storage class.
PyToSql(v) ==
    CASE v[1] = "NoneType" -> <<"NULL", 0>>
      [] v[1] \in {"int", "long"} -> <<"INTEGER", v[2]>>
      [] v[1] = "float" -> <<"REAL", v[2]>>
      [] v[1] = "buffer" -> <<"BLOB", v[2]>>
      [] OTHER -> <<"TEXT", v[2]>>

\* The columns named "value" are declared without a type: no affinity, the
\* value is stored in the class it was bound with.
ColumnAffinityMutInt(s) == IF s[1] = "REAL" THEN <<"INTEGER", s[2] \div 10>> ELSE s
ColumnAffinity(s) == s

\* sqlite3's conversion of a fetched column to a Python value.
SqlToPy(s) ==
    CASE s[1] = "NULL" -> PyNone
      [] s[1] = "INTEGER" -> <<"int", s[2]>>
      [] s[1] = "REAL" -> <<"float", s[2]>>
      [] s[1] = "BLOB" -> <<"buffer", s[2]>>
      [] OTHER -> <<"unicode", s[2]>>

\* uuid4(): a value no log has had.
Uuid4 == <<"UUID", nextid>>
\* sqlite3.Binary(u.bytes)
Binary(u) == <<"buffer", u[2]>>
\* UUID(bytes=b)
UUIDFromBytes(b) == <<"UUID", b[2]>>
b_uuid == Binary(uuid)
m_b_uuid == Binary(m_uuid)


\* ------------------------------------------------------------ SQLiteStatus
\* SELECT value FROM status WHERE uuid = ? AND key = ?  ... .fetchone():
\* <<>> for None (no row), else the one-column row.
StatusFetchone(b, key) ==
    LET hit == {r \in status : r.uuid = PyToSql(b) /\ r.key = key}
    IN  IF hit = {} THEN <<>> ELSE <<SqlToPy((CHOOSE r \in hit : TRUE).value)>>

\* SQLiteStatus.__getitem__
StatusGetItem(key) ==
    LET value == StatusFetchone(b_uuid, key)
    IN  IF ~conn.tables THEN Raise("OperationalError")
        ELSE IF value = <<>> THEN Raise("KeyError") ELSE Return(value[1])

\* INSERT OR REPLACE INTO status VALUES (?, ?, ?) on table tbl.
StatusUpsert(tbl, b, key, value) ==
    {r \in tbl : ~(r.uuid = PyToSql(b) /\ r.key = key)}
        \cup {[uuid |-> PyToSql(b), key |-> key,
               value |-> ColumnAffinity(PyToSql(value))]}

\* DELETE FROM status WHERE uuid = ? AND key = ?
StatusDeleteMutAllIdentities(tbl, b, key) == {r \in tbl : r.key # key}
StatusDelete(tbl, b, key) ==
    {r \in tbl : ~(r.uuid = PyToSql(b) /\ r.key = key)}

\* SQLiteStatus.__iter__: the keys of the rows of identity b.
StatusKeysOf(tbl, b) == {r.key : r \in {x \in tbl : x.uuid = PyToSql(b)}}

\* dict(self.status): the status of identity b as a Python dict.
StatusDict(tbl, b) ==
    [key \in StatusKeysOf(tbl, b) |->
        SqlToPy((CHOOSE r \in tbl : r.uuid = PyToSql(b) /\ r.key = key).value)]

\* MutableMapping.update(d) on the status of identity b: one __setitem__
\* per key of d.
RECURSIVE StatusUpdate(_, _, _, _)
StatusUpdate(tbl, b, d, todo) ==
    IF todo = {} THEN tbl
    ELSE LET key == CHOOSE x \in todo : TRUE
         IN  StatusUpdate(StatusUpsert(tbl, b, key, d[key]), b, d,
                          todo \ {key})

\* The dict literal of _TrainingLog.__init__.
SeedStatus ==
    [key \in SeedKeys |->
        IF key = "resumed_from" THEN PyNone ELSE <<"int", 0>>]

\* --------------------------------------------------------------- ancestors
\* The while loop of SQLiteLog.ancestors, from the list built so far.  The
\* loop has no exit on a repeated identity: a chain longer than the number
\* of identities ever minted is a loop that does not end.
Diverges == <<<<"diverges", 0>>>>
RECURSIVE WalkAncestors(_)
WalkAncestors(ancestors) ==
    LET parent == StatusFetchone(ancestors[Len(ancestors)], "resumed_from")
    IN  IF parent = <<>> \/ parent[1] = PyNone
        THEN ancestors
        ELSE IF Len(ancestors) >= nextid
             THEN Diverges
             ELSE WalkAncestors(Append(ancestors, parent[1]))

\* self.b_uuid in self._ancestors: a buffer looked up in a list of UUIDs.
CacheHitMutByBytes ==
    \E i \in 1..Len(cached_ancestors) : Binary(cached_ancestors[i]) = b_uuid
CacheHit ==
    \E i \in 1..Len(cached_ancestors) : cached_ancestors[i] = b_uuid

\* What the loop leaves in self._ancestors, if it ends.
ResolvedAncestors ==
    LET ancestors == WalkAncestors(<<b_uuid>>)
    IN  IF ancestors = Diverges THEN Diverges
        ELSE [i \in 1..Len(ancestors) |-> UUIDFromBytes(ancestors[i])]

\* self._ancestors after the property has been read.
AncestorsCache ==
    IF Len(cached_ancestors) > 0 /\ CacheHit
    THEN cached_ancestors
    ELSE ResolvedAncestors

\* SQLiteLog.ancestors: the list the property returns.
Ancestors ==
    LET cache == AncestorsCache
    IN  IF cache = Diverges THEN Diverges
        ELSE [i \in 1..Len(cache) |-> Binary(cache[i])]

\* ---------------------------------------------------------------- sequences
Range(f) == {f[i] : i \in DOMAIN f}

\* The elements of a set of integers in ascending order.
RECURSIVE SortAsc(_)
SortAsc(S) ==
    IF S = {} THEN <<>>
    ELSE LET m == CHOOSE x \in S : \A y \in S : x <= y
         IN  <<m>> \o SortAsc(S \ {m})

\* ------------------------------------------------------------- SQLiteEntry
\* SELECT value FROM entries WHERE uuid = ? AND time = ? AND key = ?
\*   ... .fetchone()
EntryFetchone(b, time, key) ==
    LET hit == {r \in entries :
                    r.uuid = PyToSql(b) /\ r.time = time /\ r.key = key}
    IN  IF hit = {} THEN <<>> ELSE <<SqlToPy((CHOOSE r \in hit : TRUE).value)>>

\* The for loop of SQLiteEntry.__getitem__ from position i of the
\* ancestors list: the first row found is returned.
RECURSIVE EntryLookupMutOldestFirst(_, _, _, _)
EntryLookupMutOldestFirst(ancestors, i, time, key) ==
    IF i > Len(ancestors) THEN Raise("KeyError")
    ELSE LET value ==
                EntryFetchone(ancestors[Len(ancestors) + 1 - i], time, key)
         IN  IF value = <<>>
             THEN EntryLookupMutOldestFirst(ancestors, i + 1, time, key)
             ELSE Return(value[1])
RECURSIVE EntryLookupMutSkipNull(_, _, _, _)
EntryLookupMutSkipNull(ancestors, i, time, key) ==
    IF i > Len(ancestors) THEN Raise("KeyError")
    ELSE LET value == EntryFetchone(ancestors[i], time, key)
         IN  IF value = <<>> \/ value[1] = PyNone
             THEN EntryLookupMutSkipNull(ancestors, i + 1, time, key)
             ELSE Return(value[1])
RECURSIVE EntryLookup(_, _, _, _)
EntryLookup(ancestors, i, time, key) ==
    IF i > Len(ancestors) THEN Raise("KeyError")
    ELSE LET value == EntryFetchone(ancestors[i], time, key)
         IN  IF value = <<>>
             THEN EntryLookup(ancestors, i + 1, time, key)
             ELSE Return(value[1])

\* SQLiteEntry.__getitem__ of the row view at `time`.
EntryGetItem(time, key) ==
    LET ancestors == Ancestors
    IN  IF ~conn.tables THEN Raise("OperationalError")
        ELSE IF ancestors = Diverges THEN Raise("diverges")
        ELSE EntryLookup(ancestors, 1, time, key)

\* INSERT OR REPLACE INTO entries VALUES (?, ?, ?, ?)
EntryUpsertMutAffinity(tbl, b, time, key, value) ==
    {r \in tbl : ~(r.uuid = PyToSql(b) /\ r.time = time /\ r.key = key)}
        \cup {[uuid |-> PyToSql(b), time |-> time, key |-> key,
               value |-> ColumnAffinityMutInt(PyToSql(value))]}
EntryUpsert(tbl, b, time, key, value) ==
    {r \in tbl : ~(r.uuid = PyToSql(b) /\ r.time = time /\ r.key = key)}
        \cup {[uuid |-> PyToSql(b), time |-> time, key |-> key,
               value |-> ColumnAffinity(PyToSql(value))]}

\* DELETE FROM entries WHERE uuid = ? AND time = ? AND key = ?
EntryDeleteMutAllIdentities(tbl, b, time, key) ==
    {r \in tbl : ~(r.time = time /\ r.key = key)}
EntryDelete(tbl, b, time, key) ==
    {r \in tbl : ~(r.uuid = PyToSql(b) /\ r.time = time /\ r.key = key)}

\* The rows WHERE uuid IN (ancestors...) AND time = ?
RowsAt(ancestors, time) ==
    {r \in entries :
        r.time = time /\ \E i \in 1..Len(ancestors) :
                            r.uuid = PyToSql(ancestors[i])}

\* SQLiteEntry.__len__: SELECT COUNT(*) over those rows.
EntryLen(time) ==
    LET ancestors == Ancestors
    IN  IF ~conn.tables THEN Raise("OperationalError")
        ELSE IF ancestors = Diverges THEN Raise("diverges")
        ELSE Return(<<"int", Cardinality(RowsAt(ancestors, time))>>)

\* SQLiteEntry.__iter__: the statement reads "WHERE uuid = IN (...)",
\* which sqlite3 refuses to prepare.
EntryIter(time) ==
    IF conn.tables /\ Ancestors = Diverges THEN Raise("diverges")
    ELSE Raise("OperationalError")

\* --------------------------------------------------------------- SQLiteLog
\* The rows WHERE uuid IN (ancestors...)
RowsOf(ancestors) ==
    {r \in entries : \E i \in 1..Len(ancestors) :
                        r.uuid = PyToSql(ancestors[i])}

\* SQLiteLog.__iter__: SELECT DISTINCT time ... ORDER BY time ASC
LogIterMutOwnRows ==
    Return(<<"list", SortAsc({r.time : r \in RowsOf(<<b_uuid>>)})>>)
LogIter ==
    LET ancestors == Ancestors
    IN  IF ~conn.tables THEN Raise("OperationalError")
        ELSE IF ancestors = Diverges THEN Raise("diverges")
        ELSE Return(<<"list", SortAsc({r.time : r \in RowsOf(ancestors)})>>)

\* SQLiteLog.__len__: SELECT COUNT(DISTINCT time)
LogLen ==
    LET ancestors == Ancestors
    IN  IF ~conn.tables THEN Raise("OperationalError")
        ELSE IF ancestors = Diverges THEN Raise("diverges")
        ELSE Return(<<"int",
                      Cardinality({r.time : r \in RowsOf(ancestors)})>>)

\* _TrainingLog._check_time
IntegralTypes == {"int", "long", "bool"}
CheckTimeMutPositive(time) ==
    ~(time[1] \notin IntegralTypes \/ time[2] <= 0)
CheckTime(time) ==
    ~(time[1] \notin IntegralTypes \/ time[2] < 0)

\* SQLiteLog.__getitem__: the row view, or ValueError.
LogGetItem(time) ==
    IF CheckTime(time) THEN Return(<<"SQLiteEntry", time[2]>>)
    ELSE Raise("ValueError")

\* ------------------------------------------------------------- TrainingLog
\* defaultdict.__getitem__ after _check_time: a missing time gets a row.
MemTouchRows(rows, time) ==
    IF time \in DOMAIN rows THEN rows
    ELSE [t \in DOMAIN rows \cup {time} |->
            IF t = time THEN <<>> ELSE rows[t]]

\* The times of the defaultdict in insertion order after the same access.
MemTouchOrder(rows, order, time) ==
    IF time \in DOMAIN rows THEN order ELSE Append(order, time)

\* TrainingLog.__getitem__: the row, or ValueError.
MemGetItem(time) ==
    IF CheckTime(time) THEN Return(<<"dict", time[2]>>)
    ELSE Raise("ValueError")

\* log[time][key] on the defaultdict.
MemEntryGetItem(time, key) ==
    IF time \in DOMAIN m_rows /\ key \in DOMAIN m_rows[time]
    THEN Return(m_rows[time][key])
    ELSE Raise("KeyError")

\* len(log) on the defaultdict.
MemLen == Return(<<"int", Cardinality(DOMAIN m_rows)>>)

\* The order in which a dict of at most five small non-negative integers
\* iterates where dicts are hash tables walked slot by slot: a table of 8
\* slots, a key k (its own hash) goes to slot k mod 8 and, that one taken,
\* to those of i = 5 * i + perturb + 1 with perturb = k, k / 32, ...
RECURSIVE DictProbe(_, _, _, _)
DictProbe(slots, i, perturb, k) ==
    IF slots[i % 8] = -1 THEN [slots EXCEPT ![i % 8] = k]
    ELSE DictProbe(slots, 5 * i + perturb + 1, perturb \div 32, k)
RECURSIVE DictSlots(_)
DictSlots(order) ==
    IF order = <<>> THEN [i \in 0..7 |-> -1]
    ELSE LET k == order[Len(order)]
         IN  DictProbe(DictSlots(SubSeq(order, 1, Len(order) - 1)),
                       k % 8, k, k)
RECURSIVE SlotOrder(_, _)
SlotOrder(slots, i) ==
    IF i > 7 THEN <<>>
    ELSE (IF slots[i] = -1 THEN <<>> ELSE <<slots[i]>>)
            \o SlotOrder(slots, i + 1)
HashOrder(order) == SlotOrder(DictSlots(order), 0)

\* list(log) on the defaultdict: the order is the interpreter's - slot
\* order where dicts are plain hash tables, insertion order where they keep
\* it; the class sorts nothing.
MemIter == {Return(<<"list", m_order>>), Return(<<"list", HashOrder(m_order)>>)}

\* log.status[key] on the plain dict.
MemStatusGetItem(key) ==
    IF key \in DOMAIN m_status THEN Return(m_status[key])
    ELSE Raise("KeyError")

\* value - 1
Minus1(v) ==
    CASE v[1] \in IntegralTypes -> Return(<<"int", v[2] - 1>>)
      [] v[1] = "float" -> Return(<<"float", v[2] - 10>>)
      [] OTHER -> Raise("TypeError")

\* _TrainingLog.current_row and previous_row, on each backend.
current_row ==
    LET it == StatusGetItem("iterations_done")
    IN  IF it[1] = "raise" THEN it ELSE LogGetItem(it[2])
previous_row_MutSameRow == current_row
previous_row ==
    LET it == StatusGetItem("iterations_done")
        time == Minus1(it[2])
    IN  IF it[1] = "raise" THEN it
        ELSE IF time[1] = "raise" THEN time ELSE LogGetItem(time[2])
m_current_row ==
    LET it == MemStatusGetItem("iterations_done")
    IN  IF it[1] = "raise" THEN it ELSE MemGetItem(it[2])
m_previous_row ==
    LET it == MemStatusGetItem("iterations_done")
        time == Minus1(it[2])
    IN  IF it[1] = "raise" THEN it
        ELSE IF time[1] = "raise" THEN time ELSE MemGetItem(time[2])

\* row[key] = value
DictSet(d, key, value) ==
    [k \in DOMAIN d \cup {key} |-> IF k = key THEN value ELSE d[k]]
\* del row[key] (a missing key raises KeyError and leaves the dict alone)
DictDel(d, key) == [k \in DOMAIN d \ {key} |-> d[k]]
\* dict.update(other)
DictUpdate(d, other) ==
    [k \in DOMAIN d \cup DOMAIN other |->
        IF k \in DOMAIN other THEN other[k] ELSE d[k]]

\* ------------------------------------------------------------------- state
Cells == Times \X Keys
NoHist == <<"none", PyNone, 0>>
\* The record kept of the last call: which call, its argument, what
\* log[time] returned on each backend (getitem), after resume() the
\* identities and the status mappings as they were when it was called, and
\* after del log[time][key] the table entries as it was.
Call(op, arg, sq, mem) ==
    [op |-> op, arg |-> arg, sq |-> sq, mem |-> mem,
     pre_uuid |-> uuid, pre_m_uuid |-> m_uuid,
     pre_status |-> <<>>, pre_m_status |-> <<>>, pre_entries |-> {}]
OtherCall == Call("call", <<>>, NoCall, NoCall)

\* The database file is shared (config.sqlite_database): it holds the rows
\* of an earlier log, identity 0, when the log is constructed.
EarlierLog == <<"buffer", 0>>
EarlierEntries ==
    {[uuid |-> PyToSql(EarlierLog), time |-> 1, key |-> "loss",
      value |-> <<"REAL", 5>>]}
EarlierStatus == StatusUpdate({}, EarlierLog, SeedStatus, SeedKeys)

\* The database argument: a file, or the transient ':memory:' database,
\* which starts empty with every connection.
Databases == {"log.db", ":memory:"}

\* The orders in which the keys S can be iterated.
Orders(S) ==
    {order \in [1..Cardinality(S) -> S] :
        \A i, j \in 1..Cardinality(S) : order[i] = order[j] => i = j}
\* The writes MutableMapping.update(d) makes, keys taken in the given order:
\* one __setitem__, and with it one transaction, per key.
StatusWrites(d, order) == [i \in 1..Len(order) |-> <<order[i], d[order[i]]>>]

\* The log under construction: the tables are there, the identity is
\* minted, the seed keys `seeded` are written, the status writes of
\* `seeding` are still to be made.
Constructed(database, seeded, seeding) ==
    /\ uuid = <<"UUID", 1>>
    /\ entries = IF database = ":memory:" THEN {} ELSE EarlierEntries
    /\ status = StatusUpdate(IF database = ":memory:" THEN {}
                             ELSE EarlierStatus,
                             <<"buffer", 1>>, SeedStatus, seeded)
    /\ cached_ancestors = <<>>
    /\ m_uuid = <<"UUID", 2>>
    /\ m_rows = <<>>
    /\ m_status = DictUpdate(<<>>, SeedStatus)
    /\ m_order = <<>>
    /\ conn = [database |-> database, tables |-> TRUE]
    /\ pending = seeding
    /\ nextid = 3
    /\ ops = 0
    /\ hist = [c \in Cells |-> NoHist]
    /\ last = [op |-> "call", arg |-> <<>>, sq |-> NoCall, mem |-> NoCall,
               pre_uuid |-> <<"UUID", 1>>, pre_m_uuid |-> <<"UUID", 2>>,
               pre_status |-> <<>>, pre_m_status |-> <<>>,
               pre_entries |-> {}]

\* SQLiteLog(database) and TrainingLog() after __init__ has returned: the
\* identity is minted and the status seeded.
Constructor(database) == Constructed(database, SeedKeys, <<>>)

\* SQLiteLog() on the configured database file, and TrainingLog().
Init == Constructor("log.db")

\* ----------------------------------------------------------------- actions
\* A call is made when the previous one has returned: none is part way
\* through its status writes and none is stuck resolving the ancestors.
Idle == pending = <<>> /\ last.op # "hang"
\* A call that writes raises OperationalError, and changes nothing, when the
\* connection is open on a database without the tables.
CanWrite == Idle /\ conn.tables /\ ops < MaxOps

\* log[time][key] = value
SetEntry(time, key, value) ==
    /\ CanWrite
    /\ entries' = EntryUpsert(entries, b_uuid, time, key, value)
    /\ m_rows' = LET rows == MemTouchRows(m_rows, time)
                 IN  [rows EXCEPT ![time] = DictSet(rows[time], key, value)]
    /\ m_order' = MemTouchOrder(m_rows, m_order, time)
    /\ ops' = ops + 1
    /\ hist' = [hist EXCEPT ![<<time, key>>] = <<"set", value, uuid[2]>>]
    /\ last' = OtherCall
    /\ UNCHANGED <<uuid, status, cached_ancestors, m_uuid, m_status, conn,
                   pending, nextid>>

\* del log[time][key]
DelEntry(time, key) ==
    LET rows == MemTouchRows(m_rows, time)
    IN  /\ CanWrite
        /\ entries' = EntryDelete(entries, b_uuid, time, key)
        /\ m_rows' = [rows EXCEPT ![time] = DictDel(rows[time], key)]
        /\ m_order' = MemTouchOrder(m_rows, m_order, time)
        /\ ops' = ops + 1
        /\ hist' = [hist EXCEPT ![<<time, key>>] = <<"del", PyNone, uuid[2]>>]
        /\ last' = [Call("delitem", <<time, key>>, NoCall, NoCall)
                        EXCEPT !.pre_entries = entries]
        /\ UNCHANGED <<uuid, status, cached_ancestors, m_uuid, m_status,
                       conn, pending, nextid>>

\* log.status[key] = value
StatusSet(key, value) ==
    /\ CanWrite
    /\ status' = StatusUpsert(status, b_uuid, key, value)
    /\ m_status' = DictSet(m_status, key, value)
    /\ ops' = ops + 1
    /\ last' = OtherCall
    /\ UNCHANGED <<uuid, entries, cached_ancestors, m_uuid, m_rows, m_order,
                   conn, pending, nextid, hist>>

\* del log.status[key]
StatusDel(key) ==
    /\ CanWrite
    /\ status' = StatusDelete(status, b_uuid, key)
    /\ m_status' = DictDel(m_status, key)
    /\ ops' = ops + 1
    /\ last' = OtherCall
    /\ UNCHANGED <<uuid, entries, cached_ancestors, m_uuid, m_rows, m_order,
                   conn, pending, nextid, hist>>

\* The status table after _TrainingLog.resume on the SQLite log:
\* update(old_status), then ['resumed_from'] = old_uuid, both under new_b.
ResumeStatusMutNoLink(old_b, new_b) ==
    LET old_status == StatusDict(status, old_b)
    IN  StatusUpdate(status, new_b, old_status, DOMAIN old_status)
ResumeStatusMutNoCopy(old_b, new_b) ==
    StatusUpsert(status, new_b, "resumed_from", old_b)
ResumeStatus(old_b, new_b) ==
    LET old_status == StatusDict(status, old_b)
    IN  StatusUpsert(StatusUpdate(status, new_b, old_status,
                                  DOMAIN old_status),
                     new_b, "resumed_from", old_b)

\* What resume() leaves of the in-memory log and of the bookkeeping.
ResumeRest ==
    /\ uuid' = Uuid4
    /\ m_uuid' = <<"UUID", nextid + 1>>
    /\ m_status' = DictSet(DictUpdate(m_status, m_status), "resumed_from",
                           m_b_uuid)
    /\ nextid' = nextid + 2
    /\ ops' = ops + 1
    /\ last' = [op |-> "resume", arg |-> <<>>, sq |-> NoCall, mem |-> NoCall,
                pre_uuid |-> uuid, pre_m_uuid |-> m_uuid,
                pre_status |-> StatusDict(status, b_uuid),
                pre_m_status |-> m_status, pre_entries |-> {}]
    /\ UNCHANGED <<entries, cached_ancestors, m_rows, m_order, conn, hist>>

\* log.resume()
Resume ==
    /\ CanWrite
    /\ status' = ResumeStatus(b_uuid, Binary(Uuid4))
    /\ ResumeRest
    /\ UNCHANGED pending

\* The in-memory log's side of log[time]: the defaultdict makes the row.
MemTouch(time) ==
    /\ m_rows' = MemTouchRows(m_rows, time)
    /\ m_order' = MemTouchOrder(m_rows, m_order, time)

\* The SQLite log's side of a call that reads self.ancestors: the list
\* resolved is kept in self._ancestors; on a chain that loops the while
\* loop does not end and the call never returns; without the tables the
\* SELECT raises before anything is assigned.
ReadAncestors ==
    IF ~conn.tables
    THEN last' = OtherCall /\ UNCHANGED cached_ancestors
    ELSE LET cache == AncestorsCache
         IN  IF cache = Diverges
             THEN /\ last' = Call("hang", <<>>, NoCall, NoCall)
                  /\ UNCHANGED cached_ancestors
             ELSE /\ last' = OtherCall
                  /\ cached_ancestors' = cache

\* log[time], for any argument
GetItem(time) ==
    /\ Idle
    /\ last' = Call("getitem", time, LogGetItem(time), MemGetItem(time))
    /\ IF CheckTime(time)
       THEN MemTouch(time[2])
       ELSE UNCHANGED <<m_rows, m_order>>
    /\ UNCHANGED <<uuid, entries, status, cached_ancestors, m_uuid, m_status,
                   conn, pending, nextid, ops, hist>>

\* log.current_row
CurrentRow ==
    /\ Idle
    /\ last' = Call("current_row", <<>>, current_row, m_current_row)
    /\ IF m_current_row[1] = "return"
       THEN MemTouch(m_current_row[2][2])
       ELSE UNCHANGED <<m_rows, m_order>>
    /\ UNCHANGED <<uuid, entries, status, cached_ancestors, m_uuid, m_status,
                   conn, pending, nextid, ops, hist>>

\* log.previous_row
PreviousRow ==
    /\ Idle
    /\ last' = Call("previous_row", <<>>, previous_row, m_previous_row)
    /\ IF m_previous_row[1] = "return"
       THEN MemTouch(m_previous_row[2][2])
       ELSE UNCHANGED <<m_rows, m_order>>
    /\ UNCHANGED <<uuid, entries, status, cached_ancestors, m_uuid, m_status,
                   conn, pending, nextid, ops, hist>>

\* pickle.loads(pickle.dumps(log)) of the SQLite log: __getstate__ leaves
\* the connection out, __setstate__ restores the attributes (the identity,
\* the database name, the cache) and connects to self.database again.  A
\* connection to ':memory:' opens a new database: no rows, no tables.
Reattach ==
    /\ Idle
    /\ conn' = [conn EXCEPT
                    !.tables = conn.tables /\ conn.database # ":memory:"]
    /\ entries' = IF conn.database = ":memory:" THEN {} ELSE entries
    /\ status' = IF conn.database = ":memory:" THEN {} ELSE status
    /\ last' = Call("reattach",
                    [c \in Cells |-> EntryGetItem(c[1], c[2])],
                    NoCall, NoCall)
    /\ UNCHANGED <<uuid, cached_ancestors, m_uuid, m_rows, m_status,
                   m_order, pending, nextid, ops, hist>>

\* One status write of the running call: its own transaction.
CommitStatusWrite ==
    /\ pending # <<>>
    /\ status' = StatusUpsert(status, b_uuid, pending[1][1], pending[1][2])
    /\ pending' = Tail(pending)
    /\ UNCHANGED <<uuid, entries, cached_ancestors, m_uuid, m_rows,
                   m_status, m_order, conn, nextid, ops, hist, last>>

\* log.resume() up to its first status write: the identity is replaced,
\* the copy of the old status and the link are still to be written.
BeginResume ==
    /\ CanWrite
    /\ \E order \in Orders(StatusKeysOf(status, b_uuid)) :
            pending' = Append(StatusWrites(StatusDict(status, b_uuid), order),
                              <<"resumed_from", b_uuid>>)
    /\ ResumeRest
    /\ UNCHANGED status

\* log[time][key]
ReadEntry(time, key) ==
    /\ Idle
    /\ ReadAncestors
    /\ MemTouch(time)
    /\ UNCHANGED <<uuid, entries, status, m_uuid, m_status, conn, pending,
                   nextid, ops, hist>>

\* len(log[time])
RowLen(time) ==
    /\ Idle
    /\ ReadAncestors
    /\ MemTouch(time)
    /\ UNCHANGED <<uuid, entries, status, m_uuid, m_status, conn, pending,
                   nextid, ops, hist>>

\* list(log[time])
RowIter(time) ==
    /\ Idle
    /\ ReadAncestors
    /\ MemTouch(time)
    /\ UNCHANGED <<uuid, entries, status, m_uuid, m_status, conn, pending,
                   nextid, ops, hist>>

\* list(log)
LogIterate ==
    /\ Idle
    /\ ReadAncestors
    /\ UNCHANGED <<uuid, entries, status, m_uuid, m_rows, m_status, m_order,
                   conn, pending, nextid, ops, hist>>

\* len(log)
LogLength ==
    /\ Idle
    /\ ReadAncestors
    /\ UNCHANGED <<uuid, entries, status, m_uuid, m_rows, m_status, m_order,
                   conn, pending, nextid, ops, hist>>

\* ---------------------------------------------------------- specifications
\* The entries of one key: writes, deletes, resumption and reads.
Next ==
    \/ \E time \in Times, value \in Values : SetEntry(time, "loss", value)
    \/ \E time \in Times : DelEntry(time, "loss")
    \/ Resume
    \/ \E time \in Times : ReadEntry(time, "loss")

Spec == Init /\ [][Next]_vars

\* Every call that writes: entries, status, resumption.
NextWrites ==
    \/ \E time \in Times, value \in Values : SetEntry(time, "loss", value)
    \/ \E time \in Times : DelEntry(time, "loss")
    \/ \E key \in StatusKeys, value \in StatusValues : StatusSet(key, value)
    \/ \E key \in StatusKeys : StatusDel(key)
    \/ Resume

SpecWrites == Init /\ [][NextWrites]_vars

\* The status and resumption, the key 'resumed_from' included.
NextStatus ==
    \/ \E key \in StatusKeys, value \in StatusValues : StatusSet(key, value)
    \/ \E key \in StatusKeys : StatusDel(key)
    \/ Resume

SpecStatus == Init /\ [][NextStatus]_vars

\* log[time] for every kind of argument, between writes and resumptions.
NextTime ==
    \/ \E time \in TimeInputs : GetItem(time)
    \/ \E time \in Times : SetEntry(time, "loss", <<"float", 10>>)
    \/ Resume

SpecTime == Init /\ [][NextTime]_vars

\* The views: the length and the iteration of a row and of the log, over
\* entries of every time and key.
NextViews ==
    \/ \E time \in Times, key \in Keys : SetEntry(time, key, <<"float", 10>>)
    \/ \E time \in Times, key \in Keys : DelEntry(time, key)
    \/ Resume
    \/ \E time \in Times : RowLen(time)
    \/ \E time \in Times : RowIter(time)
    \/ LogIterate
    \/ LogLength

SpecViews == Init /\ [][NextViews]_vars

\* The ancestry: status['resumed_from'] written by the caller - None, the
\* identity of the earlier log of the database, the log's own identity, its
\* first identity - between resumptions, entry writes and the calls that
\* resolve the ancestors.
LinkValues == {PyNone, EarlierLog, b_uuid, <<"buffer", 1>>}
NextAncestry ==
    \/ \E value \in LinkValues : StatusSet("resumed_from", value)
    \/ Resume
    \/ \E time \in Times : SetEntry(time, "loss", <<"float", 10>>)
    \/ \E time \in Times : ReadEntry(time, "loss")
    \/ \E time \in Times : RowLen(time)
    \/ LogIterate
    \/ LogLength

SpecAncestry == Init /\ [][NextAncestry]_vars

\* The rows addressed by time: log[time], current_row and previous_row
\* between entry writes, writes to status['iterations_done'] and
\* resumptions.
RowTimeInputs == {<<"int", 0>>, <<"int", 1>>, <<"int", 8>>}
IterationsValues == {<<"int", -1>>, <<"int", 1>>, <<"int", 9>>}
NextRows ==
    \/ \E time \in RowTimeInputs : GetItem(time)
    \/ CurrentRow
    \/ PreviousRow
    \/ \E time \in Times : SetEntry(time, "loss", <<"float", 10>>)
    \/ \E value \in IterationsValues : StatusSet("iterations_done", value)
    \/ Resume

SpecRows == Init /\ [][NextRows]_vars

\* Detaching and re-attaching, on either kind of database.
InitPickle == \E database \in Databases : Constructor(database)
NextPickle ==
    \/ \E time \in Times, value \in Values : SetEntry(time, "loss", value)
    \/ Resume
    \/ Reattach
    \/ \E time \in Times : ReadEntry(time, "loss")

SpecPickle == InitPickle /\ [][NextPickle]_vars

\* The status table one committed transaction at a time: the seeding in
\* __init__ and the copy in resume() as the separate writes they are.
InitCommits ==
    \E order \in Orders(SeedKeys) :
        Constructed("log.db", {}, StatusWrites(SeedStatus, order))
NextCommits ==
    \/ CommitStatusWrite
    \/ BeginResume
    \/ \E value \in StatusValues : StatusSet("iterations_done", value)

SpecCommits == InitCommits /\ [][NextCommits]_vars

\* The chain of a log used as intended: entry writes and deletes, writes to
\* status keys other than 'resumed_from', resumptions, and len(log).
NextChain ==
    \/ \E time \in Times : SetEntry(time, "loss", <<"float", 10>>)
    \/ \E time \in Times : DelEntry(time, "loss")
    \/ \E key \in UserStatusKeys, value \in StatusValues :
            StatusSet(key, value)
    \/ Resume
    \/ LogLength

SpecChain == Init /\ [][NextChain]_vars

TypeOK ==
    /\ uuid[1] = "UUID"
    /\ \A r \in entries : r.time \in Times /\ r.key \in Keys
    /\ ops \in 0..MaxOps

\* ------------------------------------------------------------------ claims
\* The identities this log has had, oldest first, are 1, 3, ..., uuid:
\* __init__ and each resume() take the next odd value of uuid4().
OwnIdentities == {n \in 1..uuid[2] : n % 2 = 1}
\* The identities of this log that hold a row for (time, key).
Holders(tbl, time, key) ==
    {n \in OwnIdentities :
        \E r \in tbl : r.uuid = <<"BLOB", n>> /\ r.time = time /\ r.key = key}
\* The Python value of the row identity n holds for (time, key).
HeldValue(tbl, n, time, key) ==
    SqlToPy((CHOOSE r \in tbl :
                r.uuid = <<"BLOB", n>> /\ r.time = time /\ r.key = key).value)
\* The largest element of a non-empty set of integers.
Newest(S) == CHOOSE n \in S : \A m \in S : m <= n
\* The value of the most recently minted identity among ids that holds a
\* row for (time, key), or KeyError.
NearestValue(tbl, ids, time, key) ==
    LET holders == Holders(tbl, time, key) \cap ids
    IN  IF holders = {} THEN Raise("KeyError")
        ELSE Return(HeldValue(tbl, Newest(holders), time, key))

C7_WriteReadRoundTrip ==
    /\ \A c \in Cells :
        (hist[c][1] = "set" /\ hist[c][3] = uuid[2]) =>
            /\ EntryGetItem(c[1], c[2]) = Return(hist[c][2])
            /\ MemEntryGetItem(c[1], c[2]) = Return(hist[c][2])
    /\ \A r1, r2 \in entries :
        (r1.uuid = r2.uuid /\ r1.time = r2.time /\ r1.key = r2.key) => r1 = r2

\* C7 witness: two writes to the same (time, key), the second one read back.
C7_Witness ==
    \E c \in Cells :
        /\ ops = 2 /\ uuid[2] = 1
        /\ hist[c] = <<"set", <<"float", 5>>, 1>>
        /\ \A d \in Cells \ {c} : hist[d] = NoHist
        /\ Len(cached_ancestors) = 1
        /\ Cardinality(Holders(entries, c[1], c[2])) = 1
        /\ EntryGetItem(c[1], c[2]) = Return(<<"float", 5>>)

C2_WritesOnlyCurrentIdentity ==
    [][/\ {r \in entries' : r.uuid # <<"BLOB", uuid'[2]>>}
            = {r \in entries : r.uuid # <<"BLOB", uuid'[2]>>}
       /\ {r \in status' : r.uuid # <<"BLOB", uuid'[2]>>}
            = {r \in status : r.uuid # <<"BLOB", uuid'[2]>>}
      ]_vars

\* C2 witness: after resume() the new identity has overwritten an entry and
\* a status key that its ancestor also holds; the ancestor's rows keep their
\* values (for the status key, the seeded one).
C2_Witness ==
    /\ uuid[2] = 3
    /\ [uuid |-> <<"BLOB", 1>>, time |-> 0, key |-> "loss",
        value |-> <<"REAL", 10>>] \in entries
    /\ [uuid |-> <<"BLOB", 3>>, time |-> 0, key |-> "loss",
        value |-> <<"REAL", 5>>] \in entries
    /\ [uuid |-> <<"BLOB", 1>>, key |-> "iterations_done",
        value |-> <<"INTEGER", 0>>] \in status
    /\ [uuid |-> <<"BLOB", 3>>, key |-> "iterations_done",
        value |-> <<"INTEGER", 2>>] \in status

\* C4: a freshly constructed log has status['resumed_from'] = None, and
\* right after resume() status['resumed_from'] is the identity the log had
\* when resume() was called, on both backends and whatever the caller did
\* to the status before.
C4_ResumedFrom ==
    /\ ops = 0 =>
        /\ StatusGetItem("resumed_from") = Return(PyNone)
        /\ "resumed_from" \in DOMAIN m_status
        /\ m_status["resumed_from"] = PyNone
    /\ last.op = "resume" =>
        /\ uuid # last.pre_uuid /\ m_uuid # last.pre_m_uuid
        /\ StatusGetItem("resumed_from") = Return(Binary(last.pre_uuid))
        /\ m_status["resumed_from"] = Binary(last.pre_m_uuid)

\* C4 witness: the second resume() has just returned; resumed_from names the
\* second identity, not the first.
C4_Witness ==
    /\ last.op = "resume" /\ uuid[2] = 5
    /\ last.pre_uuid = <<"UUID", 3>>
    /\ StatusGetItem("resumed_from") = Return(<<"buffer", 3>>)
    /\ m_status["resumed_from"] = <<"buffer", 4>>

C6_InvalidTime ==
    last.op = "getitem" =>
        LET time == last.arg
            invalid == time[1] # "int" \/ time[2] < 0
        IN  /\ (last.sq = Raise("ValueError")) <=> invalid
            /\ (last.mem = Raise("ValueError")) <=> invalid
            /\ ~invalid => last.sq[1] = "return" /\ last.mem[1] = "return"

\* C6 witness: after a write and a resume(), log[1.0] has raised ValueError
\* on both backends.
C6_Witness ==
    /\ last.op = "getitem" /\ last.arg = <<"float", 10>>
    /\ last.sq = Raise("ValueError") /\ last.mem = Raise("ValueError")
    /\ uuid[2] = 3
    /\ Holders(entries, 1, "loss") # {}

\* The times at which an identity of this log holds an entry.
TimesHeld == {t \in Times : \E k \in Keys : Holders(entries, t, k) # {}}

\* C9: len(log[time]) is the number of distinct keys that can be read at
\* time, and iterating log[time] yields those keys, each once.
C9_RowViewDistinctKeys ==
    \A t \in Times :
        LET readable == {k \in Keys : EntryGetItem(t, k)[1] = "return"}
        IN  /\ EntryLen(t) = Return(<<"int", Cardinality(readable)>>)
            /\ EntryIter(t)[1] = "return"

LinkOf(n) ==
    LET hit == {r \in status : r.uuid = <<"BLOB", n>> /\ r.key = "resumed_from"}
    IN  IF hit = {} THEN -1
        ELSE LET value == (CHOOSE r \in hit : TRUE).value
             IN  IF value[1] = "BLOB" THEN value[2] ELSE -1
\* The identities reached from n by at most k links, n included.
RECURSIVE Reach(_, _)
Reach(n, k) ==
    IF n = -1 THEN {}
    ELSE IF k = 0 THEN {n} ELSE {n} \cup Reach(LinkOf(n), k - 1)
\* A resumed_from cycle can be reached from the current identity.
CycleReachable ==
    \E n \in Reach(uuid[2], nextid) : n \in Reach(LinkOf(n), nextid)
\* The chain of links from n, resolved afresh from the status table.
RECURSIVE LinkChain(_, _)
LinkChain(n, k) ==
    IF LinkOf(n) = -1 \/ k = 0 THEN <<<<"buffer", n>>>>
    ELSE <<<<"buffer", n>>>> \o LinkChain(LinkOf(n), k - 1)

\* C11: resolving the ancestors always ends: no call is left stuck in it,
\* and with a resumed_from cycle reachable from the current identity an
\* entry read, a row length, the iteration and the length of the log each
\* end in a corrupt-ancestry error.
C11_CycleEndsInError ==
    /\ last.op # "hang"
    /\ CycleReachable =>
        /\ \A t \in Times :
            /\ EntryGetItem(t, "loss") = Raise("CorruptAncestryError")
            /\ EntryLen(t) = Raise("CorruptAncestryError")
        /\ LogIter = Raise("CorruptAncestryError")
        /\ LogLen = Raise("CorruptAncestryError")

\* C17: whenever the chain can be resolved, the list `ancestors` returns is
\* the chain resolved afresh from the status table, starting at the current
\* identity - whatever an earlier call left in the cache.
C17_AncestorsNeverStale ==
    ~CycleReachable =>
        /\ Ancestors = LinkChain(uuid[2], nextid)
        /\ Ancestors[1] = b_uuid

\* C17 witness: the chain was resolved and cached after a resume(), then
\* status['resumed_from'] was overwritten with None: the cache still holds
\* the current identity and its former ancestor, `ancestors` returns the
\* current identity alone.
C17_Witness ==
    /\ uuid[2] = 3
    /\ cached_ancestors = <<<<"UUID", 3>>, <<"UUID", 1>>>>
    /\ LinkOf(3) = -1
    /\ Ancestors = <<<<"buffer", 3>>>>

\* C12: on the in-memory log, a probe - log[time], current_row or
\* previous_row - of a time at which no key was written leaves len(log) and
\* the times the log iterates as they were.
C12_ProbeLeavesLogAlone ==
    [][(/\ last'.op \in {"getitem", "current_row", "previous_row"}
        /\ last'.mem[1] = "return"
        /\ LET time == last'.mem[2][2]
           IN  time \notin DOMAIN m_rows \/ m_rows[time] = <<>>)
       => (/\ MemLen' = MemLen
           /\ MemIter' = MemIter)
      ]_vars

\* C14: on the in-memory log, iterating the log yields the times in
\* ascending order, whatever the interpreter's dict order.
C14_MemIterAscending ==
    \A outcome \in MemIter :
        LET times == outcome[2][2]
        IN  \A i \in 1..Len(times) - 1 : times[i] < times[i + 1]

\* C19: current_row is log[status['iterations_done']] and previous_row is
\* log[status['iterations_done'] - 1] on both backends, ValueError exactly
\* when that time is negative: on a fresh log current_row is the row at 0
\* and previous_row raises, and right after resume() both address the times
\* they addressed before it.
C19_CurrentPreviousRow ==
    /\ ops = 0 =>
        /\ current_row = Return(<<"SQLiteEntry", 0>>)
        /\ m_current_row = Return(<<"dict", 0>>)
        /\ previous_row = Raise("ValueError")
        /\ m_previous_row = Raise("ValueError")
    /\ last.op = "resume" =>
        LET n == last.pre_status["iterations_done"][2]
            m == last.pre_m_status["iterations_done"][2]
        IN  /\ current_row = LogGetItem(<<"int", n>>)
            /\ previous_row = LogGetItem(<<"int", n - 1>>)
            /\ m_current_row = MemGetItem(<<"int", m>>)
            /\ m_previous_row = MemGetItem(<<"int", m - 1>>)
    /\ last.op \in {"current_row", "previous_row"} =>
        LET n == StatusGetItem("iterations_done")[2][2]
            m == m_status["iterations_done"][2]
            d == IF last.op = "current_row" THEN 0 ELSE 1
        IN  /\ last.sq = IF n - d < 0 THEN Raise("ValueError")
                         ELSE Return(<<"SQLiteEntry", n - d>>)
            /\ last.mem = IF m - d < 0 THEN Raise("ValueError")
                          ELSE Return(<<"dict", m - d>>)
            /\ m - d >= 0 => m - d \in DOMAIN m_rows

\* C19 witness: iterations_done was set to 1, the log resumed, and
\* previous_row has returned the row at time 0 on both backends.
C19_Witness ==
    /\ last.op = "previous_row" /\ uuid[2] = 3
    /\ StatusGetItem("iterations_done") = Return(<<"int", 1>>)
    /\ last.sq = Return(<<"SQLiteEntry", 0>>)
    /\ last.mem = Return(<<"dict", 0>>)
    /\ current_row = Return(<<"SQLiteEntry", 1>>)

\* C13: after the log is detached and re-attached, every (time, key) that
\* could be read before reads the same value, whichever the database.
C13_ReattachReadsSame ==
    last.op = "reattach" =>
        \A c \in Cells :
            last.arg[c][1] = "return" =>
                EntryGetItem(c[1], c[2]) = last.arg[c]

\* C16: no committed state of the status table holds an identity of the
\* log with only some of its keys, or with a 'resumed_from' row that is
\* missing or is neither None (first identity) nor the identity before it.
C16_StatusWritesAtomic ==
    \A n \in OwnIdentities :
        LET keys == StatusKeysOf(status, <<"buffer", n>>)
        IN  keys # {} =>
                /\ SeedKeys \subseteq keys
                /\ [uuid |-> <<"BLOB", n>>, key |-> "resumed_from",
                    value |-> IF n = 1 THEN <<"NULL", 0>>
                              ELSE <<"BLOB", n - 2>>] \in status

\* The identities of this log that hold a row for (time, key) whose value
\* is not NULL.
NonNullHolders(tbl, time, key) ==
    {n \in Holders(tbl, time, key) : HeldValue(tbl, n, time, key) # PyNone}

\* C15 as stated: log[time][key] returns the first value in chain order
\* that is not None, and KeyError when no identity of the chain holds a
\* value other than None for (time, key).
C15_FirstNonNullMatch ==
    \A c \in Cells :
        LET holders == NonNullHolders(entries, c[1], c[2])
        IN  EntryGetItem(c[1], c[2]) =
                IF holders = {} THEN Raise("KeyError")
                ELSE Return(HeldValue(entries, Newest(holders), c[1], c[2]))

\* C15: a row holding None counts as a match: when the nearest identity
\* that holds a row for (time, key) holds None, log[time][key] returns None
\* whatever its ancestors hold, and KeyError is raised exactly when no
\* identity of the chain holds a row for (time, key).
C15_FirstRowNullIncluded ==
    \A c \in Cells :
        LET holders == Holders(entries, c[1], c[2])
        IN  /\ (/\ holders # {}
                /\ HeldValue(entries, Newest(holders), c[1], c[2]) = PyNone)
               => EntryGetItem(c[1], c[2]) = Return(PyNone)
            /\ EntryGetItem(c[1], c[2]) = Raise("KeyError") <=> holders = {}

\* C15 witness: the current identity holds None at (0, 'loss'), its
\* ancestor holds 1.0; the read through the chain has returned None.
C15_Witness ==
    /\ uuid[2] = 3
    /\ Holders(entries, 0, "loss") = {1, 3}
    /\ HeldValue(entries, 1, 0, "loss") = <<"float", 10>>
    /\ HeldValue(entries, 3, 0, "loss") = PyNone
    /\ Len(cached_ancestors) = 2
    /\ EntryGetItem(0, "loss") = Return(PyNone)

\* C18: in a log used as intended the chain has no cycle and is, after k
\* resume() calls, the k + 1 identities the log has had, newest first.
C18_ChainIsOwnIdentities ==
    LET k == (uuid[2] - 1) \div 2
    IN  /\ ~CycleReachable
        /\ Ancestors = [i \in 1..k + 1 |-> <<"buffer", uuid[2] - 2 * (i - 1)>>]

\* C18 witness: a status key written, two resume() calls, the chain
\* resolved: three identities, newest first.
C18_Witness ==
    /\ uuid[2] = 5
    /\ StatusGetItem("note") = Return(<<"int", 1>>)
    /\ cached_ancestors = <<<<"UUID", 5>>, <<"UUID", 3>>, <<"UUID", 1>>>>
    /\ Ancestors = <<<<"buffer", 5>>, <<"buffer", 3>>, <<"buffer", 1>>>>

\* C20: after the same entry writes, entry deletes and resume() calls,
\* log[time][key] has the same outcome on the SQLite log and on the
\* in-memory log.
C20_BackendsAgree ==
    \A c \in Cells : EntryGetItem(c[1], c[2]) = MemEntryGetItem(c[1], c[2])
=============================================================================
